---- MODULE Spec2Model ----
(***************************************************************************)
(* Model of the Google Sheets ID extraction service:                       *)
(*   src/security.py  SimpleRateLimiter, sanitize_input_text,              *)
(*                    get_client_ip, check_rate_limit, SecureHTTPBearer    *)
(*   src/main.py      verify_token, extract_document_id, extract_sheet_ids,*)
(*                    determine_url_type, extract_sheets_info, POST /extract*)
(*                                                                         *)
(* A Python str is a sequence of one-character strings.  A character      *)
(* outside printable ASCII that has no escape (\t \n \r \f) is written as  *)
(* the name of its code point, "U+000B", "U+0663": one element of the      *)
(* sequence, one character.  Optional[str] is a record [isNone, value].    *)
(***************************************************************************)
EXTENDS Integers, Sequences, FiniteSets, TLC

VARIABLES
    now,            \* the value time.time() returns (whole seconds)
    requests,       \* SimpleRateLimiter.requests : client id -> deque of timestamps
    max_requests,   \* SimpleRateLimiter.max_requests
    window_seconds, \* SimpleRateLimiter.window_seconds
    allowedLog,     \* history: per client, the timestamps of all calls that returned True
    soloRequests,   \* history: per client, the deque of a limiter that only ever saw that client
    everDenied,     \* history: the clients some is_allowed call has returned False for
    lastCall,       \* history: the most recent is_allowed call and its result
    req,            \* the POST /extract request being handled
    pc,             \* position of that request in the dependency chain
    resp,           \* the response of the last finished request
    steps,          \* the gates the current request has executed, in order
    postLog,        \* history: per client, for every POST not answered 429, whether its token was accepted
    url,            \* input of the pure extraction functions
    call,           \* the last pure function call: name, arguments, result
    threads,        \* per thread, the is_allowed call it is executing
    race            \* history: calls begun, clients whose calls have overlapped

vars == <<now, requests, max_requests, window_seconds, allowedLog, soloRequests,
          everDenied, lastCall, req, pc, resp, steps, postLog, url, call,
          threads, race>>

limiterVars == <<now, requests, max_requests, window_seconds, allowedLog,
                 soloRequests, everDenied, lastCall>>
httpVars == <<req, pc, resp, steps, postLog>>
pureVars == <<url, call>>
raceVars == <<threads, race>>

-----------------------------------------------------------------------------
(* Characters and strings                                                  *)

LowerSeq == <<"a","b","c","d","e","f","g","h","i","j","k","l","m",
              "n","o","p","q","r","s","t","u","v","w","x","y","z">>
UpperSeq == <<"A","B","C","D","E","F","G","H","I","J","K","L","M",
              "N","O","P","Q","R","S","T","U","V","W","X","Y","Z">>
Lower == {LowerSeq[i] : i \in DOMAIN LowerSeq}
Upper == {UpperSeq[i] : i \in DOMAIN UpperSeq}

\* the range 0-9 of a character class
AsciiDigit == {"0","1","2","3","4","5","6","7","8","9"}

\* the name of the character with code point n: "U+" and at least four
\* hexadecimal digits
HexDigits == <<"0","1","2","3","4","5","6","7","8","9","A","B","C","D","E","F">>
RECURSIVE Hex(_, _)
Hex(n, width) ==
    IF n = 0 /\ width <= 0 THEN ""
    ELSE Hex(n \div 16, width - 1) \o HexDigits[(n % 16) + 1]
CodePoint(n) == "U+" \o Hex(n, 4)

\* the code points of the digit zero of every decimal digit system other
\* than ASCII's (Unicode category Nd, the str patterns of re)
DigitZeros ==
    { \H0660, \H06F0, \H07C0, \H0966, \H09E6, \H0A66, \H0AE6, \H0B66,
      \H0BE6, \H0C66, \H0CE6, \H0D66, \H0DE6, \H0E50, \H0ED0, \H0F20,
      \H1040, \H1090, \H17E0, \H1810, \H1946, \H19D0, \H1A80, \H1A90,
      \H1B50, \H1BB0, \H1C40, \H1C50, \HA620, \HA8D0, \HA900, \HA9D0,
      \HA9F0, \HAA50, \HABF0, \HFF10, \H104A0, \H10D30, \H11066, \H110F0,
      \H11136, \H111D0, \H112F0, \H11450, \H114D0, \H11650, \H116C0, \H11730,
      \H118E0, \H11950, \H11C50, \H11D50, \H11DA0, \H16A60, \H16AC0, \H16B50,
      \H1D7CE, \H1D7D8, \H1D7E2, \H1D7EC, \H1D7F6, \H1E140, \H1E2F0, \H1E950,
      \H1FBF0 }

\* \d of a str pattern: every Unicode decimal digit, 660 characters
Digit == AsciiDigit \cup {CodePoint(z + k) : z \in DigitZeros, k \in 0..9}

\* the character class [a-zA-Z0-9-_]
IdChars == Lower \cup Upper \cup AsciiDigit \cup {"-", "_"}

\* characters str.strip() removes and \s of a str pattern matches:
\* \t \n \x0b \f \r, \x1c-\x1f, space, \x85, \xa0 and the Unicode spaces
Whitespace ==
    { " ", "\t", "\n", "\r", "\f", "U+000B",
      "U+001C", "U+001D", "U+001E", "U+001F", "U+0085", "U+00A0",
      "U+1680", "U+2000", "U+2001", "U+2002", "U+2003", "U+2004",
      "U+2005", "U+2006", "U+2007", "U+2008", "U+2009", "U+200A",
      "U+2028", "U+2029", "U+202F", "U+205F", "U+3000" }

None == [isNone |-> TRUE, value |-> <<>>]
Some(s) == [isNone |-> FALSE, value |-> s]

SetMin(S) == CHOOSE x \in S : \A y \in S : x <= y
SetMax(S) == CHOOSE x \in S : \A y \in S : x >= y

\* pat occurs in s at position i
MatchAt(s, i, pat) ==
    /\ i >= 1
    /\ i + Len(pat) - 1 <= Len(s)
    /\ \A k \in 1..Len(pat) : s[i + k - 1] = pat[k]

\* Python's `pat in s`
Contains(s, pat) == \E i \in 1..(Len(s) + 1) : MatchAt(s, i, pat)

\* last index of the maximal run of characters of class cls that starts at i
RunEnd(s, i, cls) ==
    LET stops == {k \in i..Len(s) : s[k] \notin cls}
    IN  IF stops = {} THEN Len(s) ELSE SetMin(stops) - 1

\* str.strip()
Strip(s) ==
    LET keep == {i \in 1..Len(s) : s[i] \notin Whitespace}
    IN  IF keep = {} THEN <<>> ELSE SubSeq(s, SetMin(keep), SetMax(keep))

\* ''.join(parts[lo..hi]), by halving
RECURSIVE ConcatRange(_, _, _)
ConcatRange(parts, lo, hi) ==
    IF lo > hi THEN <<>>
    ELSE IF lo = hi THEN parts[lo]
    ELSE LET mid == (lo + hi) \div 2
         IN  ConcatRange(parts, lo, mid) \o ConcatRange(parts, mid + 1, hi)

Concat(parts) == ConcatRange(parts, 1, Len(parts))

-----------------------------------------------------------------------------
(* src/main.py: extraction functions                                       *)

\* 'spreadsheets/d/'
SheetsPathMarker ==
    <<"s","p","r","e","a","d","s","h","e","e","t","s","/","d","/">>

\* 'docs.google.com/spreadsheets'
SheetsHostMarker ==
    <<"d","o","c","s",".","g","o","o","g","l","e",".","c","o","m","/",
      "s","p","r","e","a","d","s","h","e","e","t","s">>

\* 'gid=' and '#gid='
GidParam == <<"g","i","d","=">>
GidFragment == <<"#","g","i","d","=">>

\* the {25,50} of the id pattern
IdMinLen == 25
IdMaxLen == 50

\* mutation: the length limits taken as exclusive
IdPatternMatchesExclusive(s) ==
    /\ Len(s) > IdMinLen
    /\ Len(s) < IdMaxLen
    /\ \A i \in 1..Len(s) : s[i] \in IdChars

\* re.match(r'^[a-zA-Z0-9-_]{25,50}$', s): `$` also matches before one
\* trailing newline
IdPatternMatches(s) ==
    LET body == IF Len(s) > 0 /\ s[Len(s)] = "\n"
                THEN SubSeq(s, 1, Len(s) - 1) ELSE s
    IN  /\ Len(body) >= IdMinLen
        /\ Len(body) <= IdMaxLen
        /\ \A i \in 1..Len(body) : body[i] \in IdChars

\* mutation: the id group written with * instead of +
UrlPatternSearchStar(s) ==
    LET hits == {i \in 1..Len(s) : MatchAt(s, i, SheetsPathMarker)}
    IN  IF hits = {} THEN 0 ELSE SetMin(hits)

\* mutation: the rightmost match instead of the leftmost
UrlPatternSearchLast(s) ==
    LET n == Len(SheetsPathMarker)
        hits == {i \in 1..Len(s) :
                    /\ MatchAt(s, i, SheetsPathMarker)
                    /\ i + n <= Len(s)
                    /\ s[i + n] \in IdChars}
    IN  IF hits = {} THEN 0 ELSE SetMax(hits)

\* re.search(r'spreadsheets/d/([a-zA-Z0-9-_]+)', url): start of the leftmost
\* match, 0 when there is none
UrlPatternSearch(s) ==
    LET n == Len(SheetsPathMarker)
        hits == {i \in 1..Len(s) :
                    /\ MatchAt(s, i, SheetsPathMarker)
                    /\ i + n <= Len(s)
                    /\ s[i + n] \in IdChars}
    IN  IF hits = {} THEN 0 ELSE SetMin(hits)

extract_document_id(u) ==
    IF u = <<>> THEN None
    ELSE LET m == UrlPatternSearch(u)
             n == Len(SheetsPathMarker)
         IN  IF m # 0
             THEN Some(SubSeq(u, m + n, RunEnd(u, m + n, IdChars)))
             ELSE IF IdPatternMatches(Strip(u))
                  THEN Some(Strip(u))
                  ELSE None

\* re.findall(pat + r'(\d+)', s) scanning on from position `from`:
\* the captured digit runs of the non-overlapping matches, left to right
RECURSIVE FindAllDigitsAfter(_, _, _)
FindAllDigitsAfter(s, pat, from) ==
    LET n == Len(pat)
        hits == {i \in from..Len(s) :
                    /\ MatchAt(s, i, pat)
                    /\ i + n <= Len(s)
                    /\ s[i + n] \in Digit}
    IN  IF hits = {} THEN <<>>
        ELSE LET i == SetMin(hits)
                 e == RunEnd(s, i + n, Digit)
             IN  <<SubSeq(s, i + n, e)>> \o FindAllDigitsAfter(s, pat, e + 1)

\* mutation: the seen set is never consulted
UniqueNoSeen(ids, seen, out) == out \o ids

\* the loop over sheet_ids that keeps the first occurrence of each id
RECURSIVE UniquePreservingOrder(_, _, _)
UniquePreservingOrder(ids, seen, out) ==
    IF ids = <<>> THEN out
    ELSE IF Head(ids) \in seen
         THEN UniquePreservingOrder(Tail(ids), seen, out)
         ELSE UniquePreservingOrder(Tail(ids), seen \cup {Head(ids)},
                                    Append(out, Head(ids)))

\* gid_patterns, in the order the loop applies them
GidPatterns == <<GidParam, GidFragment>>

extract_sheet_ids(u) ==
    LET sheet_ids == FindAllDigitsAfter(u, GidPatterns[1], 1)
                     \o FindAllDigitsAfter(u, GidPatterns[2], 1)
    IN  UniquePreservingOrder(sheet_ids, {}, <<>>)

\* mutation: the clean-id test made before the missing-id test
determine_url_type_IdFirst(u, document_id, sheet_ids) ==
    IF IdPatternMatches(Strip(u)) THEN "document_id"
    ELSE IF document_id.isNone \/ document_id.value = <<>> THEN "invalid"
    ELSE IF Contains(u, SheetsHostMarker) \/ Contains(u, SheetsPathMarker)
         THEN IF sheet_ids # <<>> THEN "full_url_with_sheets" ELSE "full_url"
    ELSE "partial_url"

\* mutation: only the host form of the marker is looked for
determine_url_type_HostOnly(u, document_id, sheet_ids) ==
    IF document_id.isNone \/ document_id.value = <<>> THEN "invalid"
    ELSE IF IdPatternMatches(Strip(u)) THEN "document_id"
    ELSE IF Contains(u, SheetsHostMarker)
         THEN IF sheet_ids # <<>> THEN "full_url_with_sheets" ELSE "full_url"
    ELSE "partial_url"

determine_url_type(u, document_id, sheet_ids) ==
    IF document_id.isNone \/ document_id.value = <<>> THEN "invalid"
    ELSE IF IdPatternMatches(Strip(u)) THEN "document_id"
    ELSE IF Contains(u, SheetsHostMarker) \/ Contains(u, SheetsPathMarker)
         THEN IF sheet_ids # <<>> THEN "full_url_with_sheets" ELSE "full_url"
    ELSE "partial_url"

extract_sheets_info(u) ==
    LET document_id == extract_document_id(u)
        sheet_ids == extract_sheet_ids(u)
    IN  [document_id |-> document_id,
         sheet_ids |-> sheet_ids,
         url_type |-> determine_url_type(u, document_id, sheet_ids)]

-----------------------------------------------------------------------------
(* src/security.py: sanitize_input_text                                    *)

\* MAX_TEXT_LENGTH, the default of MAX_REQUEST_SIZE
MAX_TEXT_LENGTH == 1048576

IndexIn(seq, c) == CHOOSE i \in DOMAIN seq : seq[i] = c

\* case folding of re.IGNORECASE in a str pattern, onto the ASCII letter a
\* character matches: the capitals, and the four characters outside ASCII
\* that match an ASCII letter (long s, Kelvin sign, dotted capital I,
\* dotless i)
ToLower(c) ==
    CASE c \in Upper -> LowerSeq[IndexIn(UpperSeq, c)]
      [] c = "U+017F" -> "s"
      [] c = "U+212A" -> "k"
      [] c \in {"U+0130", "U+0131"} -> "i"
      [] OTHER -> c

\* pat (given in lower case) occurs in s at position i, ignoring case
MatchAtIgnoreCase(s, i, pat) ==
    /\ i >= 1
    /\ i + Len(pat) - 1 <= Len(s)
    /\ \A k \in 1..Len(pat) : ToLower(s[i + k - 1]) = pat[k]

\* html.escape(c) for one character (quote=True)
EscapeChar(c) ==
    CASE c = "&"  -> <<"&","a","m","p",";">>
      [] c = "<"  -> <<"&","l","t",";">>
      [] c = ">"  -> <<"&","g","t",";">>
      [] c = "\"" -> <<"&","q","u","o","t",";">>
      [] c = "'"  -> <<"&","#","x","2","7",";">>
      [] OTHER    -> <<c>>

\* html.escape(text)
HtmlEscape(s) == Concat([i \in 1..Len(s) |-> EscapeChar(s[i])])

ScriptOpen == <<"<","s","c","r","i","p","t">>
ScriptClose == <<"<","/","s","c","r","i","p","t",">">>
JavascriptUrl == <<"j","a","v","a","s","c","r","i","p","t",":">>
DataHtmlUrl == <<"d","a","t","a",":","t","e","x","t","/","h","t","m","l">>
VbscriptUrl == <<"v","b","s","c","r","i","p","t",":">>

\* r'<script[^>]*>.*?</script>' tried at position i: index of the last
\* character of the match, 0 when the pattern does not match at i
ScriptBlockEnd(s, i) ==
    IF ~MatchAtIgnoreCase(s, i, ScriptOpen) THEN 0
    ELSE LET gts == {j \in (i + Len(ScriptOpen))..Len(s) : s[j] = ">"}
         IN  IF gts = {} THEN 0
             ELSE LET j == SetMin(gts)
                      closes == {k \in (j + 1)..Len(s) :
                                    MatchAtIgnoreCase(s, k, ScriptClose)}
                  IN  IF closes = {} THEN 0
                      ELSE SetMin(closes) + Len(ScriptClose) - 1

\* re.sub(r'<script[^>]*>.*?</script>', '', s) from position `from` on
RECURSIVE RemoveScriptBlocks(_, _)
RemoveScriptBlocks(s, from) ==
    LET hits == {i \in from..Len(s) : ScriptBlockEnd(s, i) # 0}
    IN  IF hits = {} THEN SubSeq(s, from, Len(s))
        ELSE LET i == SetMin(hits)
             IN  SubSeq(s, from, i - 1)
                 \o RemoveScriptBlocks(s, ScriptBlockEnd(s, i) + 1)

\* re.sub(pat, '', s, flags=re.IGNORECASE) for a literal pat, from `from` on:
\* one left-to-right pass over the non-overlapping matches
RECURSIVE RemoveLiteral(_, _, _)
RemoveLiteral(s, pat, from) ==
    LET hits == {i \in from..Len(s) : MatchAtIgnoreCase(s, i, pat)}
    IN  IF hits = {} THEN SubSeq(s, from, Len(s))
        ELSE LET i == SetMin(hits)
             IN  SubSeq(s, from, i - 1) \o RemoveLiteral(s, pat, i + Len(pat))

\* the loop over dangerous_patterns
RemoveDangerousPatterns(s) ==
    LET s1 == RemoveScriptBlocks(s, 1)
        s2 == RemoveLiteral(s1, JavascriptUrl, 1)
        s3 == RemoveLiteral(s2, DataHtmlUrl, 1)
    IN  RemoveLiteral(s3, VbscriptUrl, 1)

\* mutation: r'\s\s' instead of r'\s+', every pair of whitespace characters
\* becomes one space
CollapseWhitespacePairs(s) ==
    LET runStart(i) == SetMax({j \in 1..i : j = 1 \/ s[j - 1] \notin Whitespace})
    IN  Concat([i \in 1..Len(s) |->
                   IF s[i] \notin Whitespace THEN <<s[i]>>
                   ELSE IF (i - runStart(i)) % 2 = 1 THEN <<>>
                   ELSE IF i < Len(s) /\ s[i + 1] \in Whitespace THEN <<" ">>
                   ELSE <<s[i]>>])

\* re.sub(r'\s+', ' ', s): every maximal run of whitespace becomes one space
CollapseWhitespace(s) ==
    Concat([i \in 1..Len(s) |->
               IF s[i] \notin Whitespace THEN <<s[i]>>
               ELSE IF i = 1 \/ s[i - 1] \notin Whitespace THEN <<" ">>
               ELSE <<>>])

\* sanitize_input_text: the HTTP status it raises, or 200 and the sanitized text
sanitize_input_text(text) ==
    IF text = <<>> THEN [status |-> 400, value |-> <<>>]
    ELSE IF Len(text) > MAX_TEXT_LENGTH THEN [status |-> 413, value |-> <<>>]
    ELSE [status |-> 200,
          value |-> Strip(CollapseWhitespace(
                        RemoveDangerousPatterns(HtmlEscape(text))))]

-----------------------------------------------------------------------------
(* src/security.py: SimpleRateLimiter                                      *)

\* client identifiers
Clients == {"10.0.0.1", "10.0.0.2"}

\* every key the limiter can be called with: get_client_ip falls back to
\* "unknown"
ClientIds == Clients \cup {"unknown"}

\* bounds of the limiter model
MaxTime == 3
MaxLimit == 2
MaxWindow == 2
MaxCalls == 5

\* self.requests[client_id] of the defaultdict(deque): a missing key reads
\* as an empty deque
ClientRequests(reqs, c) == IF c \in DOMAIN reqs THEN reqs[c] ELSE <<>>

\* mutation: one deque shared by all clients
StoreRequestsShared(reqs, c, q) == [k \in DOMAIN reqs \cup {c} |-> q]

\* the client's deque after the call, every other entry as it was
StoreRequests(reqs, c, q) ==
    [k \in DOMAIN reqs \cup {c} |-> IF k = c THEN q ELSE reqs[k]]

\* mutation: eviction one second late
RECURSIVE EvictOldLate(_, _, _)
EvictOldLate(q, t, w) ==
    IF q # <<>> /\ Head(q) < t - w - 1 THEN EvictOldLate(Tail(q), t, w) ELSE q

\* mutation: `<=` instead of `<`, a timestamp exactly window_seconds old is
\* evicted
RECURSIVE EvictOldInclusive(_, _, _)
EvictOldInclusive(q, t, w) ==
    IF q # <<>> /\ Head(q) <= t - w THEN EvictOldInclusive(Tail(q), t, w) ELSE q

\* mutation: `if` instead of `while`, at most one timestamp is evicted
EvictOldOnce(q, t, w) ==
    IF q # <<>> /\ Head(q) < t - w THEN Tail(q) ELSE q

\* while client_requests and client_requests[0] < now - window: popleft()
RECURSIVE EvictOld(_, _, _)
EvictOld(q, t, w) ==
    IF q # <<>> /\ Head(q) < t - w THEN EvictOld(Tail(q), t, w) ELSE q

\* mutation: the limit test off by one
OverLimitOffByOne(q, m) == Len(q) > m

\* len(client_requests) >= self.max_requests
OverLimit(q, m) == Len(q) >= m

\* mutation: the timestamp recorded before the limit test
is_allowed_RecordFirst(q, t, m, w) ==
    LET kept == EvictOld(q, t, w)
    IN  IF OverLimit(kept, m)
        THEN [allowed |-> FALSE, queue |-> Append(kept, t)]
        ELSE [allowed |-> TRUE, queue |-> Append(kept, t)]

\* is_allowed on the client's deque q at time t: the result and the deque
\* it leaves behind
is_allowed(q, t, m, w) ==
    LET kept == EvictOld(q, t, w)
    IN  IF OverLimit(kept, m)
        THEN [allowed |-> FALSE, queue |-> kept]
        ELSE [allowed |-> TRUE, queue |-> Append(kept, t)]

NoCall == [made |-> FALSE]

\* one call rate_limiter.is_allowed(c) at the current time, with the history
\* variables that record it
LimiterCall(c) ==
    LET r == is_allowed(ClientRequests(requests, c), now, max_requests, window_seconds)
        solo == is_allowed(soloRequests[c], now, max_requests, window_seconds)
    IN  /\ requests' = StoreRequests(requests, c, r.queue)
        /\ soloRequests' = [soloRequests EXCEPT ![c] = solo.queue]
        /\ allowedLog' = [allowedLog EXCEPT
                             ![c] = IF r.allowed THEN Append(@, now) ELSE @]
        /\ everDenied' = IF r.allowed THEN everDenied ELSE everDenied \cup {c}
        /\ lastCall' = [made |-> TRUE, client |-> c, time |-> now,
                        allowed |-> r.allowed,
                        soloAllowed |-> solo.allowed,
                        logBefore |-> allowedLog[c],
                        deniedBefore |-> c \in everDenied]
        /\ UNCHANGED <<now, max_requests, window_seconds>>

\* SimpleRateLimiter(max_requests, window_seconds): no client recorded yet
InitLimiter ==
    /\ now = 0
    /\ requests = <<>>
    /\ max_requests \in 0..MaxLimit
    /\ window_seconds \in 0..MaxWindow
    /\ allowedLog = [c \in ClientIds |-> <<>>]
    /\ soloRequests = [c \in ClientIds |-> <<>>]
    /\ everDenied = {}
    /\ lastCall = NoCall

\* time.time() moves on
Tick ==
    /\ now < MaxTime
    /\ now' = now + 1
    /\ UNCHANGED <<requests, max_requests, window_seconds, allowedLog,
                   soloRequests, everDenied, lastCall>>
    /\ UNCHANGED <<httpVars, pureVars, raceVars>>

RECURSIVE SumLen(_, _)
SumLen(log, cs) ==
    IF cs = {} THEN 0
    ELSE LET c == CHOOSE x \in cs : TRUE
         IN  Len(log[c]) + SumLen(log, cs \ {c})

\* the history is kept for at most MaxCalls allowed calls
HistoryHasRoom == SumLen(allowedLog, ClientIds) < MaxCalls

\* limiter.is_allowed(c)
IsAllowed(c) ==
    /\ is_allowed(ClientRequests(requests, c), now, max_requests,
                  window_seconds).allowed => HistoryHasRoom
    /\ LimiterCall(c)
    /\ UNCHANGED <<httpVars, pureVars, raceVars>>

NoRequest == [present |-> FALSE]
NoResponse == [present |-> FALSE]
NoPureCall == [fn |-> "none"]

InitHttpIdle ==
    /\ req = NoRequest
    /\ pc = "idle"
    /\ resp = NoResponse
    /\ steps = <<>>
    /\ postLog = [c \in ClientIds |-> <<>>]

InitPureIdle ==
    /\ url = <<>>
    /\ call = NoPureCall

\* the threads that call the limiter
Threads == {"t1", "t2"}

IdleThread == [pc |-> "idle", client |-> "none", now |-> 0, result |-> "none"]

InitRaceIdle ==
    /\ threads = [t \in Threads |-> IdleThread]
    /\ race = [begun |-> 0, overlapped |-> {}]

InitL == InitLimiter /\ InitHttpIdle /\ InitPureIdle /\ InitRaceIdle
NextL == Tick \/ \E c \in Clients : IsAllowed(c)
SpecLimiter == InitL /\ [][NextL]_vars

-----------------------------------------------------------------------------
(* Claims about the rate limiter, checked under SpecLimiter                *)

Last(s) == s[Len(s)]

\* number of allowed calls of the log whose timestamp is still inside the
\* window at time t
InWindowCount(log, t, w) == Cardinality({i \in DOMAIN log : log[i] >= t - w})

\* C1: when exactly max_requests calls of a client have returned True with
\* timestamps that are all still inside the window at the time of the next
\* call, that next call returns False (max_requests >= 1).
C1_DeniedAfterLimit ==
    ( /\ lastCall.made
      /\ max_requests >= 1
      /\ InWindowCount(lastCall.logBefore, lastCall.time, window_seconds)
            = max_requests )
    => ~lastCall.allowed

C1_Witness ==
    /\ lastCall.made
    /\ max_requests = MaxLimit
    /\ InWindowCount(lastCall.logBefore, lastCall.time, window_seconds)
          = max_requests
    /\ ~lastCall.allowed

\* the precondition shared by the two readings of C2: the client was denied
\* before and has an allowed call in its past
C2_Case ==
    /\ lastCall.made
    /\ max_requests >= 1
    /\ lastCall.deniedBefore
    /\ lastCall.logBefore # <<>>

\* C2 as stated: a denied client is allowed again by any call made at a time
\* now with now - t_last >= window_seconds, t_last the time of its most recent
\* allowed call.
C2_AllowedAtWindowEnd ==
    ( /\ C2_Case
      /\ lastCall.time - Last(lastCall.logBefore) >= window_seconds )
    => lastCall.allowed

\* C2 as amended: a denied client is allowed again by any call made at a time
\* now with now - t_last > window_seconds (a timestamp exactly window_seconds
\* old is not evicted).
C2_AllowedAfterWindow ==
    ( /\ C2_Case
      /\ lastCall.time - Last(lastCall.logBefore) > window_seconds )
    => lastCall.allowed

C2_Witness ==
    /\ C2_Case
    /\ window_seconds >= 1
    /\ lastCall.time - Last(lastCall.logBefore) = window_seconds + 1
    /\ lastCall.allowed

\* C3: windows are per client: the result of every is_allowed(b) call and the
\* timestamps stored for b are the ones of a limiter that never saw a call of
\* any other client.
C3_PerClientWindows ==
    /\ lastCall.made => lastCall.allowed = lastCall.soloAllowed
    /\ \A b \in Clients : ClientRequests(requests, b) = soloRequests[b]

C3_Witness ==
    /\ lastCall.made
    /\ lastCall.allowed
    /\ max_requests >= 1
    /\ \E a \in Clients \ {lastCall.client} :
          /\ a \in everDenied
          /\ Len(ClientRequests(requests, a)) = max_requests

\* a is what is left of b after dropping entries from its front
IsSuffix(a, b) == \E k \in 0..Len(b) : a = SubSeq(b, k + 1, Len(b))

\* the step of one is_allowed call, described by lastCall': what client c's
\* deque was before (q) and is after (q2)
C16_Step ==
    (now' = now /\ lastCall'.made) =>
        LET c == lastCall'.client
            q == ClientRequests(requests, c)
            q2 == ClientRequests(requests', c)
            kept == IF lastCall'.allowed THEN SubSeq(q2, 1, Len(q2) - 1) ELSE q2
        IN  /\ lastCall'.allowed => (q2 # <<>> /\ Last(q2) = now)
            /\ IsSuffix(kept, q)
            /\ \A i \in 1..(Len(q) - Len(kept)) : q[i] < now - window_seconds
            /\ \A d \in Clients \ {c} :
                  ClientRequests(requests', d) = ClientRequests(requests, d)

\* C16: is_allowed records only on success: a call that returns False adds no
\* timestamp for the client, whose stored timestamps change only by eviction
\* of expired entries; a call that returns True appends exactly one timestamp,
\* the call's now, at the end of the client's sequence.
C16_RecordsOnlyOnSuccess == [][C16_Step]_vars

\* a call denied later than the client's last allowed call: the stored
\* timestamps are the allowed ones, none bears the time of the denied call
C16_Witness ==
    /\ lastCall.made
    /\ ~lastCall.allowed
    /\ max_requests >= 1
    /\ lastCall.logBefore # <<>>
    /\ Last(lastCall.logBefore) < lastCall.time
    /\ Len(ClientRequests(requests, lastCall.client)) = max_requests
    /\ \A i \in DOMAIN ClientRequests(requests, lastCall.client) :
          ClientRequests(requests, lastCall.client)[i] < lastCall.time

\* C17: whenever is_allowed(c) has returned at time now, every timestamp t
\* stored for c satisfies now - window_seconds <= t <= now and the stored
\* sequence is in non-decreasing order.
C17_StoredInsideWindow ==
    (lastCall.made /\ lastCall.time = now) =>
        LET q == ClientRequests(requests, lastCall.client)
        IN  /\ \A i \in DOMAIN q : now - window_seconds <= q[i] /\ q[i] <= now
            /\ \A i, j \in DOMAIN q : i < j => q[i] <= q[j]

\* a call that evicted: allowed calls older than the window are in the
\* client's past, and what is stored spans the whole window
C17_Witness ==
    /\ lastCall.made
    /\ lastCall.time = now
    /\ window_seconds >= 1
    /\ \E i \in DOMAIN lastCall.logBefore :
          lastCall.logBefore[i] < now - window_seconds
    /\ LET q == ClientRequests(requests, lastCall.client)
       IN  /\ Len(q) >= 2
           /\ q[1] = now - window_seconds
           /\ Last(q) = now

\* number of allowed calls of the log with a timestamp in [t - w, t]
AllowedInInterval(log, t, w) ==
    Cardinality({i \in DOMAIN log : t - w <= log[i] /\ log[i] <= t})

\* C20: with atomic is_allowed calls and a clock that never decreases, for
\* every client and every time t the number of calls that returned True with
\* a timestamp in the closed interval [t - window_seconds, t] is at most
\* max_requests, and no client's stored sequence is longer than max_requests.
C20_SlidingWindowBound ==
    \A c \in Clients :
        /\ \A t \in 0..(now + window_seconds) :
              AllowedInInterval(allowedLog[c], t, window_seconds) <= max_requests
        /\ Len(ClientRequests(requests, c)) <= max_requests

\* a client admitted more often than max_requests over time, with a full
\* interval that ends at the current time and starts at an allowed call
C20_Witness ==
    /\ max_requests >= 1
    /\ window_seconds >= 1
    /\ \E c \in Clients :
          /\ Len(allowedLog[c]) > max_requests
          /\ AllowedInInterval(allowedLog[c], now, window_seconds) = max_requests
          /\ \E i \in DOMAIN allowedLog[c] :
                allowedLog[c][i] = now - window_seconds

-----------------------------------------------------------------------------
(* The pure extraction functions applied to bounded inputs                 *)

\* bound: an input is the concatenation of at most MaxParts tokens
MaxParts == 3

\* an id of n characters that uses letters, digits, '-' and '_'
IdAlphabet == <<"1","a","B","-","z","9","_","Q">>
MkId(n) == [i \in 1..n |-> IdAlphabet[(i % Len(IdAlphabet)) + 1]]

\* the pieces inputs are built from: the two URL markers, ids one character
\* short of the lower length limit and exactly at either limit, single
\* characters inside
\* and outside the id alphabet, whitespace (ASCII, and a vertical tab with a
\* no-break space), and gid parameters (one with an Arabic-Indic digit)
Tokens ==
    { SheetsHostMarker,
      SheetsPathMarker,
      MkId(IdMinLen - 1),
      MkId(IdMinLen),
      MkId(IdMaxLen),
      <<"x">>, <<"/">>, <<" ">>, <<"\n">>, <<"U+000B", "U+00A0">>,
      GidParam,
      <<"g","i","d","=","1">>,
      <<"g","i","d","=","U+0663","2">>,
      <<"#","g","i","d","=","1">>,
      <<"?","g","i","d","=","2","2">> }

TokenSeqs == UNION {[1..n -> Tokens] : n \in 0..MaxParts}

Inputs == {Concat(p) : p \in TokenSeqs}

\* arguments determine_url_type is called with besides the ones
\* extract_sheets_info passes
DocumentIdArgs == {None, Some(<<>>), Some(<<"x">>)}
SheetIdsArgs == {<<>>, << <<"1">> >>}

InitPure ==
    /\ url \in Inputs
    /\ call = NoPureCall

InitLimiterIdle ==
    /\ now = 0
    /\ requests = <<>>
    /\ max_requests = 1
    /\ window_seconds = 1
    /\ allowedLog = [c \in ClientIds |-> <<>>]
    /\ soloRequests = [c \in ClientIds |-> <<>>]
    /\ everDenied = {}
    /\ lastCall = NoCall

CallExtractDocumentId ==
    /\ call = NoPureCall
    /\ call' = [fn |-> "extract_document_id", result |-> extract_document_id(url)]
    /\ UNCHANGED <<url, limiterVars, httpVars, raceVars>>

CallExtractSheetIds ==
    /\ call = NoPureCall
    /\ call' = [fn |-> "extract_sheet_ids", result |-> extract_sheet_ids(url)]
    /\ UNCHANGED <<url, limiterVars, httpVars, raceVars>>

CallDetermineUrlType ==
    /\ call = NoPureCall
    /\ \E d \in DocumentIdArgs, g \in SheetIdsArgs :
          call' = [fn |-> "determine_url_type", document_id |-> d, sheet_ids |-> g,
                   result |-> determine_url_type(url, d, g)]
    /\ UNCHANGED <<url, limiterVars, httpVars, raceVars>>

CallExtractSheetsInfo ==
    /\ call = NoPureCall
    /\ call' = [fn |-> "extract_sheets_info", result |-> extract_sheets_info(url)]
    /\ UNCHANGED <<url, limiterVars, httpVars, raceVars>>

InitE == InitPure /\ InitLimiterIdle /\ InitHttpIdle /\ InitRaceIdle
NextE ==
    \/ CallExtractDocumentId
    \/ CallExtractSheetIds
    \/ CallDetermineUrlType
    \/ CallExtractSheetsInfo
SpecExtract == InitE /\ [][NextE]_vars

-----------------------------------------------------------------------------
(* Claims about the extraction functions, checked under SpecExtract        *)

\* `spreadsheets/d/` at position i, followed by at least one id character
IdOccurrenceAt(s, i) ==
    /\ MatchAt(s, i, SheetsPathMarker)
    /\ i + Len(SheetsPathMarker) <= Len(s)
    /\ s[i + Len(SheetsPathMarker)] \in IdChars

\* s[b..e] is a non-empty run of id characters ended by a character outside
\* the id alphabet or by the end of s
IdRun(s, b, e) ==
    /\ b <= e
    /\ e <= Len(s)
    /\ \A k \in b..e : s[k] \in IdChars
    /\ e = Len(s) \/ s[e + 1] \notin IdChars

\* C6: when the input contains `spreadsheets/d/` followed by a non-empty id,
\* extract_document_id returns exactly the id of the first such occurrence,
\* whatever surrounds it.
C6_IdOfFirstOccurrence ==
    call.fn = "extract_document_id" =>
        \A i \in 1..Len(url) :
            ( /\ IdOccurrenceAt(url, i)
              /\ \A j \in 1..(i - 1) : ~IdOccurrenceAt(url, j) )
            => \E e \in (i + Len(SheetsPathMarker))..Len(url) :
                  /\ IdRun(url, i + Len(SheetsPathMarker), e)
                  /\ call.result = Some(SubSeq(url, i + Len(SheetsPathMarker), e))

\* two occurrences with different ids, and text after the id of the first
C6_Witness ==
    /\ call.fn = "extract_document_id"
    /\ ~call.result.isNone
    /\ \E i, j \in 1..Len(url) :
          /\ i < j
          /\ IdOccurrenceAt(url, i)
          /\ IdOccurrenceAt(url, j)
          /\ \A k \in 1..(i - 1) : ~IdOccurrenceAt(url, k)
          /\ i + Len(SheetsPathMarker) + Len(call.result.value) <= Len(url)
          /\ \E e \in j..Len(url) :
                /\ IdRun(url, j + Len(SheetsPathMarker), e)
                /\ call.result # Some(SubSeq(url, j + Len(SheetsPathMarker), e))

\* url is s surrounded by whitespace only, s = url[lo..hi] over the id
\* alphabet (lo = hi + 1 for the empty s)
WholeInputId(s, lo, hi) ==
    /\ lo <= hi + 1
    /\ \A k \in 1..(lo - 1) : s[k] \in Whitespace
    /\ \A k \in (hi + 1)..Len(s) : s[k] \in Whitespace
    /\ \A k \in lo..hi : s[k] \in IdChars

\* C7: for a whole input s over the id alphabet, optionally surrounded by
\* whitespace, extract_document_id returns the trimmed s when its length is
\* between 25 and 50 inclusive and None when it is shorter or longer.
C7_WholeInputId ==
    call.fn = "extract_document_id" =>
        \A lo \in 1..(Len(url) + 1) :
            (\A k \in 1..(lo - 1) : url[k] \in Whitespace) =>
                \A hi \in (lo - 1)..Len(url) :
                    WholeInputId(url, lo, hi) =>
                        call.result =
                            IF hi - lo + 1 >= 25 /\ hi - lo + 1 <= 50
                            THEN Some(SubSeq(url, lo, hi))
                            ELSE None

\* an id of exactly 50 characters between whitespace is returned trimmed
C7_Witness ==
    /\ call.fn = "extract_document_id"
    /\ Len(url) = 52
    /\ WholeInputId(url, 2, 51)
    /\ call.result = Some(SubSeq(url, 2, 51))

\* `gid=` at position i, followed by at least one digit
GidOccurrenceAt(s, i) ==
    /\ MatchAt(s, i, GidParam)
    /\ i + Len(GidParam) <= Len(s)
    /\ s[i + Len(GidParam)] \in Digit

GidOccurrences(s) == {i \in 1..Len(s) : GidOccurrenceAt(s, i)}

\* the digit run that follows the `gid=` at position i
DigitRunAfter(s, i) ==
    SubSeq(s, i + Len(GidParam), RunEnd(s, i + Len(GidParam), Digit))

FirstOccurrence(s, run) ==
    SetMin({i \in GidOccurrences(s) : DigitRunAfter(s, i) = run})

\* C8: extract_sheet_ids returns a list without duplicates that holds exactly
\* the distinct digit runs following the `gid=` occurrences of the input, in
\* the order of their first occurrence.
C8_DistinctGidsInOrder ==
    call.fn = "extract_sheet_ids" =>
        LET r == call.result
        IN  /\ \A k, l \in DOMAIN r : k # l => r[k] # r[l]
            /\ {r[k] : k \in DOMAIN r}
                  = {DigitRunAfter(url, i) : i \in GidOccurrences(url)}
            /\ \A k, l \in DOMAIN r :
                  k < l => FirstOccurrence(url, r[k]) < FirstOccurrence(url, r[l])

\* the same gid once in parameter form and once as #gid=N, after another gid
C8_Witness ==
    /\ call.fn = "extract_sheet_ids"
    /\ Len(call.result) = 2
    /\ \E i, j \in GidOccurrences(url) :
          /\ 1 < i
          /\ i < j
          /\ url[i - 1] # "#"
          /\ url[j - 1] = "#"
          /\ DigitRunAfter(url, i) = DigitRunAfter(url, j)
          /\ call.result[2] = DigitRunAfter(url, i)

\* characters a parameter name is made of
NameChars == Lower \cup Upper \cup AsciiDigit \cup {"_"}

\* the `gid` at position i is a name of its own, not the tail of a longer one
GidNameStartsAt(s, i) == i = 1 \/ s[i - 1] \notin NameChars

\* C18: only gid parameters are collected: every element extract_sheet_ids
\* returns is the digit run of a `gid=<digits>` occurrence whose `gid` is a
\* parameter name of its own (after `?`, `&` or `#`); a `gid=` that is the
\* tail of a longer name, as in `bgid=7`, contributes nothing.
C18_OnlyGidParameters ==
    call.fn = "extract_sheet_ids" =>
        \A k \in DOMAIN call.result :
            \E i \in GidOccurrences(url) :
                /\ DigitRunAfter(url, i) = call.result[k]
                /\ GidNameStartsAt(url, i)

UrlTypes == {"invalid", "document_id", "full_url_with_sheets", "full_url",
             "partial_url"}

\* the trimmed url is 25 to 50 id characters
TrimmedIsCleanId(s) ==
    \E lo \in 1..Len(s) :
        /\ \A k \in 1..(lo - 1) : s[k] \in Whitespace
        /\ \E hi \in lo..Len(s) :
              /\ WholeInputId(s, lo, hi)
              /\ hi - lo + 1 >= 25
              /\ hi - lo + 1 <= 50

HasSheetsMarker(s) ==
    \E i \in 1..Len(s) :
        MatchAt(s, i, SheetsHostMarker) \/ MatchAt(s, i, SheetsPathMarker)

\* C9: determine_url_type returns one of the five labels, chosen by the first
\* condition that holds: no document id (None or empty) -> invalid; trimmed
\* url is a 25-50 character id -> document_id; sheets marker and sheet ids ->
\* full_url_with_sheets; sheets marker -> full_url; otherwise partial_url.
C9_UrlTypePriority ==
    call.fn = "determine_url_type" =>
        /\ call.result \in UrlTypes
        /\ call.result =
              CASE call.document_id.isNone \/ call.document_id.value = <<>>
                      -> "invalid"
                [] ~(call.document_id.isNone \/ call.document_id.value = <<>>)
                   /\ TrimmedIsCleanId(url)
                      -> "document_id"
                [] ~(call.document_id.isNone \/ call.document_id.value = <<>>)
                   /\ ~TrimmedIsCleanId(url)
                   /\ HasSheetsMarker(url)
                   /\ call.sheet_ids # <<>>
                      -> "full_url_with_sheets"
                [] ~(call.document_id.isNone \/ call.document_id.value = <<>>)
                   /\ ~TrimmedIsCleanId(url)
                   /\ HasSheetsMarker(url)
                   /\ call.sheet_ids = <<>>
                      -> "full_url"
                [] OTHER -> "partial_url"

\* the earlier condition wins: no document id although the url is a clean id
C9_Witness ==
    /\ call.fn = "determine_url_type"
    /\ call.document_id.isNone
    /\ TrimmedIsCleanId(url)
    /\ call.result = "invalid"

\* the input holds `spreadsheets/d/` followed by an id character
HasIdOccurrence(s) == \E i \in 1..Len(s) : IdOccurrenceAt(s, i)

\* C21: through extract_sheets_info the label partial_url is never produced:
\* whenever an id is found, either the input holds `spreadsheets/d/` and the
\* label is full_url or full_url_with_sheets, or the trimmed input is itself
\* a 25-50 character id and the label is document_id; the two ways of finding
\* an id exclude each other, and document_id comes with empty sheet_ids.
C21_NeverPartialUrl ==
    call.fn = "extract_sheets_info" =>
        LET r == call.result
        IN  /\ r.url_type # "partial_url"
            /\ ~r.document_id.isNone =>
                  \/ /\ HasIdOccurrence(url)
                     /\ r.url_type \in {"full_url", "full_url_with_sheets"}
                  \/ /\ TrimmedIsCleanId(url)
                     /\ r.url_type = "document_id"
            /\ ~(HasIdOccurrence(url) /\ TrimmedIsCleanId(url))
            /\ r.url_type = "document_id" => r.sheet_ids = <<>>

\* the form the route's docstring calls a partial URL, `spreadsheets/d/<id>`
\* without the host, is labelled full_url
C21_Witness ==
    /\ call.fn = "extract_sheets_info"
    /\ MatchAt(url, 1, SheetsPathMarker)
    /\ ~Contains(url, SheetsHostMarker)
    /\ ~call.result.document_id.isNone
    /\ call.result.sheet_ids = <<>>
    /\ call.result.url_type = "full_url"

-----------------------------------------------------------------------------
(* POST /extract: the dependency chain and the route handler               *)

\* API_TOKEN, the default of the environment variable
API_TOKEN == "your-secret-token-here"

\* max_length of SheetsExtractionRequest.url
UrlMaxLength == 2048
\* min_length of SheetsExtractionRequest.url
UrlMinLength == 1

Absent == [present |-> FALSE]
Header(v) == [present |-> TRUE, value |-> v]

\* the str a sequence of characters stands for, as the key of the limiter
RECURSIVE Key(_)
Key(s) == IF s = <<>> THEN "" ELSE Head(s) \o Key(Tail(s))

\* s.split(",")[0]
FirstField(s) ==
    LET commas == {i \in 1..Len(s) : s[i] = ","}
    IN  IF commas = {} THEN s ELSE SubSeq(s, 1, SetMin(commas) - 1)

\* `if value:` on the result of headers.get: the header is there and not
\* the empty string
Truthy(h) == h.present /\ h.value # <<>>

\* get_client_ip: the first entry of X-Forwarded-For stripped, then
\* X-Real-IP as it is, then the transport peer, then "unknown"; an empty
\* header counts as a missing one
get_client_ip(h) ==
    IF Truthy(h.forwarded_for)
    THEN Key(Strip(FirstField(h.forwarded_for.value)))
    ELSE IF Truthy(h.real_ip) THEN Key(h.real_ip.value)
    ELSE IF h.peer.present THEN Key(h.peer.value)
    ELSE "unknown"

Ip1 == <<"1","0",".","0",".","0",".","1">>
Ip2 == <<"1","0",".","0",".","0",".","2">>

\* the origins a request can come with: a proxy chain with blanks around
\* the comma, X-Real-IP, the peer alone, and empty headers without a peer
Origins ==
    { [forwarded_for |-> Header(Ip1 \o <<" ", ",", " ">> \o Ip2),
       real_ip |-> Header(Ip2), peer |-> Header(Ip2)],
      [forwarded_for |-> Absent,
       real_ip |-> Header(Ip2), peer |-> Header(Ip1)],
      [forwarded_for |-> Absent, real_ip |-> Absent, peer |-> Header(Ip1)],
      [forwarded_for |-> Header(<<>>), real_ip |-> Header(<<>>),
       peer |-> Absent] }

\* get_client_ip tabulated over the origins sent
ClientOf == [o \in Origins |-> get_client_ip(o)]

\* the capitals of Latin-1 outside ASCII (a header value is decoded as
\* Latin-1): U+00C0..U+00DE without the multiplication sign
Latin1Capitals == (192..222) \ {215}

\* str.lower() on them: the character 32 code points on
Latin1Lower ==
    [c \in {CodePoint(n) : n \in Latin1Capitals} |->
        CodePoint(32 + (CHOOSE n \in Latin1Capitals : c = CodePoint(n)))]

\* str.lower() of one character of a header value
LowerChar(c) ==
    IF c \in Upper THEN LowerSeq[IndexIn(UpperSeq, c)]
    ELSE IF c \in DOMAIN Latin1Lower THEN Latin1Lower[c]
    ELSE c

\* scheme.lower()
SchemeLower(s) == [i \in 1..Len(s) |-> LowerChar(s[i])]

BearerLower == <<"b","e","a","r","e","r">>

BearerScheme == <<"B","e","a","r","e","r">>

\* the Authorization headers a request can come with, split at the first
\* space into scheme and credentials
AuthHeaders ==
    { Absent,
      Header([scheme |-> BearerScheme, credentials |-> API_TOKEN]),
      Header([scheme |-> <<"b","E","a","R","e","R">>, credentials |-> API_TOKEN]),
      Header([scheme |-> BearerScheme, credentials |-> "invalid-token"]),
      Header([scheme |-> BearerScheme, credentials |-> "Your-Secret-Token-Here"]),
      Header([scheme |-> BearerScheme, credentials |-> ""]),
      Header([scheme |-> <<"B","a","s","i","c">>, credentials |-> API_TOKEN]) }

\* HTTPBearer.__call__ with auto_error: 403 without scheme and credentials
\* or with a scheme other than bearer, else the credentials
http_bearer(auth) ==
    IF ~auth.present \/ auth.value.scheme = <<>> \/ auth.value.credentials = ""
    THEN [status |-> 403, credentials |-> ""]
    ELSE IF SchemeLower(auth.value.scheme) # BearerLower
    THEN [status |-> 403, credentials |-> ""]
    ELSE [status |-> 200, credentials |-> auth.value.credentials]

\* mutation: any non-empty credentials accepted
verify_token_AnyToken(credentials) == IF credentials = "" THEN 401 ELSE 200

\* verify_token: 401 unless the credentials equal API_TOKEN
verify_token(credentials) == IF credentials # API_TOKEN THEN 401 ELSE 200

\* a request body that is not well-formed JSON (the text `invalid json`
\* sent as application/json)
MalformedBody ==
    [present |-> TRUE, malformed |-> TRUE,
     value |-> <<"i","n","v","a","l","i","d"," ","j","s","o","n">>]

\* the JSON decoder fails on the body: the route answers 422 before it
\* resolves any dependency
IsMalformed(body) == body = MalformedBody

\* mutation: max_length left out
validate_request_NoMaxLength(body) ==
    IF ~body.present THEN [status |-> 422, url |-> <<>>]
    ELSE IF Len(body.value) < UrlMinLength
    THEN [status |-> 422, url |-> <<>>]
    ELSE LET s == sanitize_input_text(body.value)
         IN  [status |-> s.status, url |-> s.value]

\* mutation: the validator hands the url on as submitted
validate_request_NoSanitize(body) ==
    IF ~body.present THEN [status |-> 422, url |-> <<>>]
    ELSE IF Len(body.value) < UrlMinLength \/ Len(body.value) > UrlMaxLength
    THEN [status |-> 422, url |-> <<>>]
    ELSE [status |-> sanitize_input_text(body.value).status, url |-> body.value]

\* SheetsExtractionRequest: the length limits on the raw url, then the
\* validate_url validator
validate_request(body) ==
    IF ~body.present THEN [status |-> 422, url |-> <<>>]
    ELSE IF Len(body.value) < UrlMinLength \/ Len(body.value) > UrlMaxLength
    THEN [status |-> 422, url |-> <<>>]
    ELSE LET s == sanitize_input_text(body.value)
         IN  [status |-> s.status, url |-> s.value]

\* the body of the route handler extract_sheets_ids
extract_sheets_ids_handler(u) ==
    LET extracted_info == extract_sheets_info(u)
    IN  [success |-> ~extracted_info.document_id.isNone,
         document_id |-> extracted_info.document_id,
         sheet_ids |-> extracted_info.sheet_ids,
         original_url |-> u,
         url_type |-> extracted_info.url_type]

NoBody == [success |-> FALSE, document_id |-> None, sheet_ids |-> <<>>,
           original_url |-> <<>>, url_type |-> "none"]

Rejected(status, retry_after, gates) ==
    [status |-> status, retry_after |-> retry_after, has_body |-> FALSE,
     body |-> NoBody, steps |-> gates]

\* mutation: the bearer scheme and the token checked before the rate limit
post_extract_AuthFirst(allowed, auth, body) ==
    LET bearer == http_bearer(auth)
        valid == validate_request(body)
    IN  IF IsMalformed(body)
        THEN Rejected(422, "", <<>>)
        ELSE IF bearer.status # 200
        THEN Rejected(bearer.status, "", <<"http_bearer">>)
        ELSE IF verify_token(bearer.credentials) # 200
        THEN Rejected(401, "", <<"http_bearer", "verify_token">>)
        ELSE IF ~allowed
        THEN Rejected(429, "3600",
                      <<"http_bearer", "verify_token", "check_rate_limit">>)
        ELSE IF valid.status # 200
        THEN Rejected(valid.status, "",
                      <<"http_bearer", "verify_token", "check_rate_limit",
                        "validate_request">>)
        ELSE [status |-> 200, retry_after |-> "", has_body |-> TRUE,
              body |-> extract_sheets_ids_handler(valid.url),
              steps |-> <<"http_bearer", "verify_token", "check_rate_limit",
                          "validate_request", "extract_sheets_ids">>]

\* mutation: the result of verify_token is not looked at
post_extract_TokenIgnored(allowed, auth, body) ==
    LET bearer == http_bearer(auth)
        valid == validate_request(body)
    IN  IF IsMalformed(body)
        THEN Rejected(422, "", <<>>)
        ELSE IF ~allowed
        THEN Rejected(429, "3600", <<"check_rate_limit">>)
        ELSE IF bearer.status # 200
        THEN Rejected(bearer.status, "", <<"check_rate_limit", "http_bearer">>)
        ELSE IF valid.status # 200
        THEN Rejected(valid.status, "",
                      <<"check_rate_limit", "http_bearer", "verify_token",
                        "validate_request">>)
        ELSE [status |-> 200, retry_after |-> "", has_body |-> TRUE,
              body |-> extract_sheets_ids_handler(valid.url),
              steps |-> <<"check_rate_limit", "http_bearer", "verify_token",
                          "validate_request", "extract_sheets_ids">>]

\* one POST /extract: the JSON body decoded, then the dependencies
\* (check_rate_limit inside SecureHTTPBearer.__call__, the bearer scheme,
\* verify_token), the request model, the handler; `allowed` is what
\* rate_limiter.is_allowed returns for the client when it is asked
post_extract(allowed, auth, body) ==
    LET bearer == http_bearer(auth)
        valid == validate_request(body)
    IN  IF IsMalformed(body)
        THEN Rejected(422, "", <<>>)
        ELSE IF ~allowed
        THEN Rejected(429, "3600", <<"check_rate_limit">>)
        ELSE IF bearer.status # 200
        THEN Rejected(bearer.status, "", <<"check_rate_limit", "http_bearer">>)
        ELSE IF verify_token(bearer.credentials) # 200
        THEN Rejected(401, "",
                      <<"check_rate_limit", "http_bearer", "verify_token">>)
        ELSE IF valid.status # 200
        THEN Rejected(valid.status, "",
                      <<"check_rate_limit", "http_bearer", "verify_token",
                        "validate_request">>)
        ELSE [status |-> 200, retry_after |-> "", has_body |-> TRUE,
              body |-> extract_sheets_ids_handler(valid.url),
              steps |-> <<"check_rate_limit", "http_bearer", "verify_token",
                          "validate_request", "extract_sheets_ids">>]

\* the url fields requests are sent with
HttpUrls ==
    { Concat(<<<<"h","t","t","p","s",":","/","/">>, SheetsHostMarker, <<"/","d","/">>, MkId(IdMinLen), <<"/","e","d","i","t","?","g","i","d","=","1","#","g","i","d","=","1">>>>),
      MkId(IdMinLen),
      SheetsPathMarker,
      Concat(<<SheetsPathMarker, <<"x","'","&","g","i","d","=","2","2">>>>),
      <<"h","t","t","p","s",":","/","/","e","x","a","m","p","l","e",".","c","o","m","/","n","o","t","-","a","-","s","h","e","e","t","s","-","u","r","l">>,
      <<" ">>,
      <<>>,
      [i \in 1..UrlMaxLength |-> IF i = 1 THEN "&" ELSE "a"],
      [i \in 1..(UrlMaxLength + 1) |-> "a"] }

\* no body, a body that is not JSON, and {"url": u} for the urls above
Bodies == {Absent, MalformedBody} \cup {Header(u) : u \in HttpUrls}

ValidAuth == Header([scheme |-> BearerScheme, credentials |-> API_TOKEN])
FullUrlBody == Header(CHOOSE u \in HttpUrls : Contains(u, SheetsHostMarker))

PeerOrigin == CHOOSE o \in Origins : ~o.forwarded_for.present /\ ~o.real_ip.present
                                     /\ o.peer.present

\* the requests sent: every Authorization header, every origin and every
\* body, each varied with the other two held at a request that passes
PostRequests ==
    {[origin |-> PeerOrigin, auth |-> a, body |-> FullUrlBody] : a \in AuthHeaders}
    \cup {[origin |-> o, auth |-> ValidAuth, body |-> FullUrlBody] : o \in Origins}
    \cup {[origin |-> PeerOrigin, auth |-> ValidAuth, body |-> b] : b \in Bodies}
    \cup {[origin |-> PeerOrigin, auth |-> Absent, body |-> MalformedBody]}

\* post_extract tabulated over the requests sent
PostResponses ==
    [r \in PostRequests, allowed \in BOOLEAN |->
        post_extract(allowed, r.auth, r.body)]

\* bound: the history is kept for at most MaxPosts admitted requests
MaxPosts == 2
ServiceHasRoom == SumLen(allowedLog, ClientIds) < MaxPosts

\* the limiter of the running service
InitService ==
    /\ now = 0
    /\ requests = <<>>
    /\ max_requests \in {1, 2}
    /\ window_seconds = 1
    /\ allowedLog = [c \in ClientIds |-> <<>>]
    /\ soloRequests = [c \in ClientIds |-> <<>>]
    /\ everDenied = {}
    /\ lastCall = NoCall

\* the request as the server sees it
PostRequest(r) ==
    [present |-> TRUE, method |-> "POST", path |-> "/extract",
     origin |-> r.origin, auth |-> r.auth, body |-> r.body]

\* bound: the bodies at the length limit are sent to the fresh service only
FitsExploration(r) ==
    (r.body.present /\ Len(r.body.value) >= UrlMaxLength) => ~lastCall.made

\* the history of POST requests that got past the rate limit: the ones
\* check_rate_limit ran for and did not answer 429
Logged(log, c, response) ==
    IF response.steps # <<>> /\ response.status # 429
    THEN [log EXCEPT ![c] = Append(@, response.status \notin {401, 403})]
    ELSE log

\* mutation: check_rate_limit called after the token check instead of before
\* the bearer scheme check, so only authenticated requests count
PostExtractLimitAfterAuth(r) ==
    LET c == ClientOf[r.origin]
        a == is_allowed(ClientRequests(requests, c), now, max_requests,
                        window_seconds)
        bearer == http_bearer(r.auth)
        authed == bearer.status = 200 /\ verify_token(bearer.credentials) = 200
    IN  /\ (~authed \/ a.allowed) => SumLen(postLog, ClientIds) < MaxPosts
        /\ FitsExploration(r)
        /\ IF authed /\ ~IsMalformed(r.body)
           THEN LimiterCall(c) ELSE UNCHANGED limiterVars
        /\ req' = PostRequest(r)
        /\ resp' = [present |-> TRUE] @@ PostResponses[r, ~authed \/ a.allowed]
        /\ steps' = resp'.steps
        /\ pc' = IF resp'.status = 200 THEN "Responded" ELSE "Rejected"
        /\ postLog' = Logged(postLog, c, resp')
        /\ UNCHANGED <<pureVars, raceVars>>

\* a POST /extract request handled from arrival to response: a body that
\* is not JSON is answered before the dependencies run, so the limiter is
\* not called for it
PostExtract(r) ==
    LET c == ClientOf[r.origin]
        a == is_allowed(ClientRequests(requests, c), now, max_requests,
                        window_seconds)
    IN  /\ (~IsMalformed(r.body) /\ a.allowed) => ServiceHasRoom
        /\ FitsExploration(r)
        /\ IF IsMalformed(r.body)
           THEN UNCHANGED limiterVars
           ELSE LimiterCall(c)
        /\ req' = PostRequest(r)
        /\ resp' = [present |-> TRUE] @@ PostResponses[r, a.allowed]
        /\ steps' = resp'.steps
        /\ pc' = IF resp'.status = 200 THEN "Responded" ELSE "Rejected"
        /\ postLog' = Logged(postLog, c, resp')
        /\ UNCHANGED <<pureVars, raceVars>>

\* GET / and GET /health: no dependency, no limiter access
GetHealth(path) ==
    /\ req' = [present |-> TRUE, method |-> "GET", path |-> path,
               origin |-> CHOOSE o \in Origins : ~o.peer.present,
               auth |-> Absent, body |-> Absent]
    /\ resp' = [present |-> TRUE, status |-> 200, retry_after |-> "",
                has_body |-> FALSE, body |-> NoBody, steps |-> <<>>]
    /\ steps' = <<>>
    /\ pc' = "Responded"
    /\ UNCHANGED <<postLog, limiterVars, pureVars, raceVars>>

Init == InitService /\ InitHttpIdle /\ InitPureIdle /\ InitRaceIdle
Next ==
    \/ Tick
    \/ \E r \in PostRequests : PostExtract(r)
    \/ \E p \in {"/", "/health"} : GetHealth(p)
Spec == Init /\ [][Next]_vars

-----------------------------------------------------------------------------
(* Claims about POST /extract, checked under Spec                          *)

\* the Authorization headers that carry a bearer credential
BearerCredentialHeaders ==
    {auth \in AuthHeaders :
        /\ auth.present
        /\ SchemeLower(auth.value.scheme) = BearerLower
        /\ auth.value.credentials # ""}

HasBearerCredential(auth) == auth \in BearerCredentialHeaders

\* ... and it is exactly the configured token
CredentialMatches(auth) ==
    HasBearerCredential(auth) /\ auth.value.credentials = API_TOKEN

PostAnswered == resp.present /\ req.present /\ req.method = "POST"

Ran(gate) == \E i \in DOMAIN steps : steps[i] = gate

\* C4 as stated: a POST /extract whose bearer credential is missing or differs
\* from the token never reaches extraction and is never answered 200: a
\* credential that does not match yields 401, an absent one 403.
C4_Always401Or403 ==
    (PostAnswered /\ ~CredentialMatches(req.auth)) =>
        /\ resp.status # 200
        /\ ~Ran("extract_sheets_ids")
        /\ resp.status = IF HasBearerCredential(req.auth) THEN 401 ELSE 403

\* C4 as amended: such a request never reaches extraction and is never
\* answered 200; it is answered 429 when its client is over the rate limit,
\* and otherwise 401 for a credential that does not match and 403 for an
\* absent one.
C4_UnauthenticatedRejected ==
    (PostAnswered /\ ~IsMalformed(req.body) /\ ~CredentialMatches(req.auth)) =>
        /\ resp.status # 200
        /\ ~Ran("extract_sheets_ids")
        /\ resp.status =
              IF ~lastCall.allowed THEN 429
              ELSE IF HasBearerCredential(req.auth) THEN 401 ELSE 403

\* a token that differs from the configured one only in letter case: 401
C4_Witness ==
    /\ PostAnswered
    /\ HasBearerCredential(req.auth)
    /\ req.auth.value.credentials = "Your-Secret-Token-Here"
    /\ lastCall.allowed
    /\ resp.status = 401

\* the client of the answered request is over the limit: the limiter has
\* refused it, or was not asked and would refuse it now (timestamps only
\* leave the window as time passes, so it would have refused on arrival too)
ClientOverLimit ==
    IF Ran("check_rate_limit") THEN ~lastCall.allowed
    ELSE ~is_allowed(ClientRequests(requests, ClientOf[req.origin]), now,
                     max_requests, window_seconds).allowed

C10_OutcomeFieldsAgree ==
    (PostAnswered /\ resp.status = 200) =>
        /\ resp.has_body
        /\ resp.body.success <=> ~resp.body.document_id.isNone
        /\ resp.body.success <=> resp.body.url_type # "invalid"
        /\ ~resp.body.document_id.isNone => resp.body.document_id.value # <<>>

\* a 200 response for a url that holds the marker but no id after it
C10_Witness ==
    /\ PostAnswered
    /\ resp.status = 200
    /\ Contains(resp.body.original_url, SheetsPathMarker)
    /\ ~resp.body.success
    /\ resp.body.document_id.isNone
    /\ resp.body.url_type = "invalid"

\* characters html.escape rewrites
EscapedChars == {"&", "<", ">", "\"", "'"}

\* s holds nothing the sanitizer touches: no character html.escape rewrites,
\* no whitespace, none of the removed literals in any letter case
UntouchedBySanitizer(s) ==
    /\ \A i \in 1..Len(s) : s[i] \notin EscapedChars \cup Whitespace
    /\ \A i \in 1..Len(s) :
          /\ ~MatchAtIgnoreCase(s, i, JavascriptUrl)
          /\ ~MatchAtIgnoreCase(s, i, DataHtmlUrl)
          /\ ~MatchAtIgnoreCase(s, i, VbscriptUrl)

\* what sanitize_input_text makes of each url sent
SanitizedUrl == [u \in HttpUrls |-> sanitize_input_text(u).value]

\* C11 as stated: for every accepted POST /extract, original_url of the
\* response equals the url string submitted in the request body.
C11_OriginalUrlAsSubmitted ==
    (PostAnswered /\ resp.status = 200) =>
        resp.body.original_url = req.body.value

\* C11 as amended: original_url of an accepted request is the submitted url
\* after sanitize_input_text; it equals the submitted url when that holds no
\* character html.escape rewrites, no whitespace and no removed literal.
C11_OriginalUrlSanitized ==
    (PostAnswered /\ resp.status = 200) =>
        /\ resp.body.original_url = SanitizedUrl[req.body.value]
        /\ UntouchedBySanitizer(req.body.value) =>
              resp.body.original_url = req.body.value

\* an accepted url with a quote and an ampersand comes back escaped
C11_Witness ==
    /\ PostAnswered
    /\ resp.status = 200
    /\ \E i \in 1..Len(req.body.value) : req.body.value[i] = "&"
    /\ resp.body.original_url # req.body.value
    /\ Contains(resp.body.original_url, <<"&","a","m","p",";">>)

\* the request got past the rate limit and the token check
PassedAuthGates ==
    Ran("check_rate_limit") /\ lastCall.allowed /\ CredentialMatches(req.auth)

\* a submitted url outside the length limits is answered 422 and never
\* extracted from
C14_OutOfBoundsRejected ==
    ( /\ PostAnswered
      /\ PassedAuthGates
      /\ req.body.present
      /\ Len(req.body.value) \notin UrlMinLength..UrlMaxLength )
    => /\ resp.status = 422
       /\ ~Ran("extract_sheets_ids")

\* C14 as stated: every url passed to extract_sheets_info and echoed as
\* original_url is 1 to 2048 characters long; a request whose url is empty or
\* longer than 2048 is rejected with 422 before extraction.
C14_ProcessedUrlInBounds ==
    /\ (PostAnswered /\ resp.status = 200) =>
          Len(resp.body.original_url) \in UrlMinLength..UrlMaxLength
    /\ C14_OutOfBoundsRejected

\* C14 as amended: the bound holds of the submitted url: every accepted
\* request was submitted with a url of 1 to 2048 characters and a request
\* whose url is empty or longer is rejected with 422 before extraction; the
\* url passed to extract_sheets_info and echoed is the sanitized one, of 0 up
\* to 6 times the submitted number of characters.
C14_SubmittedUrlInBounds ==
    /\ (PostAnswered /\ resp.status = 200) =>
          /\ Len(req.body.value) \in UrlMinLength..UrlMaxLength
          /\ Len(resp.body.original_url) \in 0..(6 * Len(req.body.value))
    /\ C14_OutOfBoundsRejected

\* an accepted url of exactly 2048 characters that is echoed longer
C14_Witness ==
    /\ PostAnswered
    /\ resp.status = 200
    /\ Len(req.body.value) = UrlMaxLength
    /\ Len(resp.body.original_url) > UrlMaxLength

\* the gates of POST /extract in the order they run, the handler last
GateChain == <<"check_rate_limit", "http_bearer", "verify_token",
               "validate_request", "extract_sheets_ids">>

\* C15: every POST /extract ends either Responded or Rejected: a request
\* rejected at a gate (rate limit, authentication, body validation) ran no
\* extraction and has no result body; a request that ran extraction passed
\* every gate and returns a complete result (document_id, sheet_ids and
\* url_type set, sheet_ids possibly empty).
C15_RespondedOrRejected ==
    PostAnswered =>
        /\ pc \in {"Responded", "Rejected"}
        /\ pc = "Responded" <=> Ran("extract_sheets_ids")
        /\ pc = "Rejected" =>
              /\ resp.status \in {429, 403, 401, 422}
              /\ ~resp.has_body
              /\ resp.body = NoBody
              /\ Len(steps) < Len(GateChain)
              /\ steps = SubSeq(GateChain, 1, Len(steps))
        /\ Ran("extract_sheets_ids") =>
              /\ resp.status = 200
              /\ steps = GateChain
              /\ lastCall.allowed
              /\ CredentialMatches(req.auth)
              /\ req.body.present
              /\ Len(req.body.value) \in UrlMinLength..UrlMaxLength
              /\ resp.has_body
              /\ resp.body.url_type \in UrlTypes
              /\ resp.body.document_id.isNone
                    \/ resp.body.document_id.value # <<>>
              /\ \A i \in DOMAIN resp.body.sheet_ids :
                    /\ resp.body.sheet_ids[i] # <<>>
                    /\ \A k \in DOMAIN resp.body.sheet_ids[i] :
                          resp.body.sheet_ids[i][k] \in Digit

\* a request turned away by body validation, after it passed the rate limit
\* and the token check
C15_Witness ==
    /\ PostAnswered
    /\ pc = "Rejected"
    /\ resp.status = 422
    /\ req.body.present
    /\ steps = SubSeq(GateChain, 1, 4)
    /\ ~resp.has_body

\* the requests of the client of the last limiter call that were admitted
\* before it, inside the window of that call, and carried no accepted token
UnauthenticatedInWindow ==
    LET c == lastCall.client
    IN  Cardinality({i \in DOMAIN lastCall.logBefore :
                        /\ ~postLog[c][i]
                        /\ lastCall.logBefore[i]
                              >= lastCall.time - window_seconds})

\* the same count for an answered request whatever its path: when the
\* limiter was not asked, the client's requests without an accepted token
\* that are inside the window now (no more than on arrival)
UnauthenticatedBefore ==
    IF Ran("check_rate_limit") THEN UnauthenticatedInWindow
    ELSE LET c == ClientOf[req.origin]
         IN  Cardinality({i \in DOMAIN allowedLog[c] :
                             /\ ~postLog[c][i]
                             /\ allowedLog[c][i] >= now - window_seconds})

C22_RecordedWhateverTheOutcome ==
    /\ \A c \in ClientIds : Len(postLog[c]) = Len(allowedLog[c])
    /\ PostAnswered => (Ran("check_rate_limit") <=> ~IsMalformed(req.body))
    /\ (PostAnswered /\ IsMalformed(req.body)) =>
          /\ resp.status = 422
          /\ steps = <<>>
    /\ (PostAnswered /\ Ran("check_rate_limit")) =>
          /\ lastCall.made
          /\ lastCall.client = ClientOf[req.origin]
          /\ resp.status # 429 <=> lastCall.allowed
          /\ resp.status \in {401, 403, 422, 200} =>
                /\ allowedLog[lastCall.client]
                      = Append(lastCall.logBefore, lastCall.time)
                /\ ClientRequests(requests, lastCall.client) # <<>>
                /\ ClientRequests(requests, lastCall.client)[
                      Len(ClientRequests(requests, lastCall.client))]
                      = lastCall.time
          /\ resp.status = 429 =>
                allowedLog[lastCall.client] = lastCall.logBefore

\* max_requests unauthenticated requests inside the window shut out the
\* client's next request that reaches the gate although its token is valid
C22_ValidTokenShutOut ==
    (/\ PostAnswered
     /\ Ran("check_rate_limit")
     /\ CredentialMatches(req.auth)
     /\ UnauthenticatedInWindow >= max_requests) => resp.status = 429

\* a GET is answered 200 without running check_rate_limit
C22_GetAnswered ==
    (resp.present /\ req.present /\ req.method = "GET") =>
        /\ resp.status = 200
        /\ steps = <<>>
        /\ ~Ran("check_rate_limit")

\* a step that answers a GET, or a POST whose body is not JSON, leaves the
\* limiter as it was
C22_GetStep ==
    (/\ req'.present
     /\ \/ req'.method = "GET"
        \/ req'.method = "POST" /\ IsMalformed(req'.body)) =>
        /\ requests' = requests
        /\ allowedLog' = allowedLog
        /\ lastCall' = lastCall
        /\ everDenied' = everDenied
        /\ max_requests' = max_requests
        /\ window_seconds' = window_seconds
        /\ postLog' = postLog

-----------------------------------------------------------------------------
(* sanitize_input_text applied to bounded inputs, once and to its own      *)
(* output                                                                  *)

\* bound: a text is the concatenation of at most MaxTextParts tokens
MaxTextParts == 3

\* the pieces texts are built from: plain characters, the characters
\* html.escape rewrites, whitespace, the removed literals whole, in upper
\* case, with a long s and in halves, and the script tags
TextTokens ==
    { <<"a">>, <<"&">>, <<"<">>, <<"'", "\"">>,
      <<" ">>, <<" ", "\t", "U+000B", "\n">>,
      JavascriptUrl,
      <<"j","a","v","a","U+017F","c","r","i","p","t",":">>,
      <<"J","A","V","A","S","C","R","I","P","T",":">>,
      <<"j","a","v","a">>, <<"s","c","r","i","p","t",":">>,
      VbscriptUrl, DataHtmlUrl,
      <<"<","s","c","r","i","p","t",">">>, ScriptClose }

TextTokenSeqs == UNION {[1..n -> TextTokens] : n \in 0..MaxTextParts}

Texts == {Concat(p) : p \in TextTokenSeqs}

InitText ==
    /\ url \in Texts
    /\ call = NoPureCall

\* sanitize_input_text(text)
CallSanitize ==
    /\ call = NoPureCall
    /\ call' = [fn |-> "sanitize_input_text", result |-> sanitize_input_text(url)]
    /\ UNCHANGED <<url, limiterVars, httpVars, raceVars>>

\* sanitize_input_text applied to the text the first call returned
CallSanitizeAgain ==
    /\ call.fn = "sanitize_input_text"
    /\ call.result.status = 200
    /\ call' = [fn |-> "sanitize_twice", first |-> call.result,
                result |-> sanitize_input_text(call.result.value)]
    /\ UNCHANGED <<url, limiterVars, httpVars, raceVars>>

InitS == InitText /\ InitLimiterIdle /\ InitHttpIdle /\ InitRaceIdle
NextS == CallSanitize \/ CallSanitizeAgain
SpecSanitize == InitS /\ [][NextS]_vars

-----------------------------------------------------------------------------
(* Claims about sanitize_input_text, checked under SpecSanitize            *)

\* pat occurs in s, in any letter case
ContainsIgnoreCase(s, pat) == \E i \in 1..Len(s) : MatchAtIgnoreCase(s, i, pat)

\* s holds `<script`, a `>` after it and `</script>` after that
HasScriptBlock(s) ==
    \E i \in 1..Len(s) :
        /\ MatchAtIgnoreCase(s, i, ScriptOpen)
        /\ \E j \in (i + Len(ScriptOpen))..Len(s) :
              /\ s[j] = ">"
              /\ \E k \in (j + 1)..Len(s) : MatchAtIgnoreCase(s, k, ScriptClose)

\* s holds a script block or one of the three removed literals
HasDangerousPattern(s) ==
    \/ HasScriptBlock(s)
    \/ ContainsIgnoreCase(s, JavascriptUrl)
    \/ ContainsIgnoreCase(s, DataHtmlUrl)
    \/ ContainsIgnoreCase(s, VbscriptUrl)

\* the texts C12 speaks of: non-empty, within the length limit, free of the
\* dangerous patterns
C12_Case ==
    /\ call.fn = "sanitize_twice"
    /\ url # <<>>
    /\ Len(url) <= MAX_TEXT_LENGTH
    /\ ~HasDangerousPattern(url)

\* C12 as stated: for every non-empty x within the length limit that holds no
\* script block and none of `javascript:`, `data:text/html`, `vbscript:`,
\* sanitize(sanitize(x)) = sanitize(x).
C12_IdempotentOnPatternFree ==
    C12_Case => call.result = call.first

\* C12 as amended: the same for every such x that also holds none of the
\* characters html.escape rewrites (& < > " ') and is not whitespace only.
C12_IdempotentOnEscapeFree ==
    ( /\ C12_Case
      /\ \A i \in 1..Len(url) : url[i] \notin EscapedChars
      /\ \E i \in 1..Len(url) : url[i] \notin Whitespace )
    => /\ call.first.status = 200
       /\ call.result = call.first

\* a text the first call changes (a whitespace run inside) and the second
\* call leaves alone
C12_Witness ==
    /\ C12_Case
    /\ \A i \in 1..Len(url) : url[i] \notin EscapedChars
    /\ \E i \in 2..(Len(url) - 1) :
          /\ url[i] = "\t"
          /\ url[1] \notin Whitespace
          /\ url[Len(url)] \notin Whitespace
    /\ call.first.value # url
    /\ call.result = call.first

\* C13: for every accepted input, the output of sanitize_input_text holds no
\* occurrence, in any letter case, of `javascript:`, `data:text/html` or
\* `vbscript:`.
C13_NoDangerousLiteralLeft ==
    (call.fn = "sanitize_input_text" /\ call.result.status = 200) =>
        /\ ~ContainsIgnoreCase(call.result.value, JavascriptUrl)
        /\ ~ContainsIgnoreCase(call.result.value, DataHtmlUrl)
        /\ ~ContainsIgnoreCase(call.result.value, VbscriptUrl)

-----------------------------------------------------------------------------
(* SimpleRateLimiter.is_allowed called from two threads: the statements of *)
(* one call interleave with the statements of the other                    *)

\* bound: at most MaxRaceCalls calls are begun
MaxRaceCalls == 3

\* the call of thread t ends: it returns `result` or raises it
Finish(t, result) ==
    threads' = [threads EXCEPT ![t] = [pc |-> "idle", client |-> @.client,
                                       now |-> 0, result |-> result]]

\* the deque the call of thread t works on
ThreadRequests(t) == ClientRequests(requests, threads[t].client)

\* now = time.time()
RaceBegin(t, c) ==
    /\ threads[t].pc = "idle"
    /\ race.begun < MaxRaceCalls
    /\ threads' = [threads EXCEPT ![t] = [pc |-> "lookup", client |-> c,
                                          now |-> now, result |-> "none"]]
    /\ race' = [begun |-> race.begun + 1,
                overlapped |->
                    IF \E u \in Threads \ {t} :
                          threads[u].pc # "idle" /\ threads[u].client = c
                    THEN race.overlapped \cup {c}
                    ELSE race.overlapped]
    /\ UNCHANGED <<limiterVars, httpVars, pureVars>>

\* client_requests = self.requests[client_id]: the defaultdict creates the
\* key when it is missing
RaceLookup(t) ==
    /\ threads[t].pc = "lookup"
    /\ requests' = StoreRequests(requests, threads[t].client, ThreadRequests(t))
    /\ threads' = [threads EXCEPT ![t].pc = "test"]
    /\ UNCHANGED <<now, max_requests, window_seconds, allowedLog, soloRequests,
                   everDenied, lastCall, race, httpVars, pureVars>>

\* while client_requests ...: the truth test of the deque
RaceLoopTest(t) ==
    /\ threads[t].pc = "test"
    /\ threads' = [threads EXCEPT ![t].pc =
                      IF ThreadRequests(t) # <<>> THEN "head" ELSE "check"]
    /\ UNCHANGED <<limiterVars, race, httpVars, pureVars>>

\* ... and client_requests[0] < now - self.window_seconds: IndexError when
\* the deque has been emptied since the truth test
RaceLoopHead(t) ==
    /\ threads[t].pc = "head"
    /\ IF ThreadRequests(t) = <<>>
       THEN Finish(t, "IndexError")
       ELSE threads' = [threads EXCEPT ![t].pc =
                           IF Head(ThreadRequests(t))
                                 < threads[t].now - window_seconds
                           THEN "pop" ELSE "check"]
    /\ UNCHANGED <<limiterVars, race, httpVars, pureVars>>

\* client_requests.popleft(): IndexError on an empty deque
RacePop(t) ==
    /\ threads[t].pc = "pop"
    /\ IF ThreadRequests(t) = <<>>
       THEN Finish(t, "IndexError") /\ UNCHANGED requests
       ELSE /\ requests' = StoreRequests(requests, threads[t].client,
                                         Tail(ThreadRequests(t)))
            /\ threads' = [threads EXCEPT ![t].pc = "test"]
    /\ UNCHANGED <<now, max_requests, window_seconds, allowedLog, soloRequests,
                   everDenied, lastCall, race, httpVars, pureVars>>

\* if len(client_requests) >= self.max_requests: return False
RaceCheck(t) ==
    /\ threads[t].pc = "check"
    /\ IF OverLimit(ThreadRequests(t), max_requests)
       THEN Finish(t, "False")
       ELSE threads' = [threads EXCEPT ![t].pc = "append"]
    /\ UNCHANGED <<limiterVars, race, httpVars, pureVars>>

\* mutation: the limit tested again at the append
RaceAppendRecheck(t) ==
    /\ threads[t].pc = "append"
    /\ IF OverLimit(ThreadRequests(t), max_requests)
       THEN Finish(t, "False") /\ UNCHANGED <<requests, allowedLog>>
       ELSE /\ requests' = StoreRequests(requests, threads[t].client,
                               Append(ThreadRequests(t), threads[t].now))
            /\ allowedLog' = [allowedLog EXCEPT ![threads[t].client] =
                                 Append(@, threads[t].now)]
            /\ Finish(t, "True")
    /\ UNCHANGED <<now, max_requests, window_seconds, soloRequests,
                   everDenied, lastCall, race, httpVars, pureVars>>

\* client_requests.append(now); return True
RaceAppend(t) ==
    /\ threads[t].pc = "append"
    /\ requests' = StoreRequests(requests, threads[t].client,
                                 Append(ThreadRequests(t), threads[t].now))
    /\ allowedLog' = [allowedLog EXCEPT ![threads[t].client] =
                         Append(@, threads[t].now)]
    /\ Finish(t, "True")
    /\ UNCHANGED <<now, max_requests, window_seconds, soloRequests,
                   everDenied, lastCall, race, httpVars, pureVars>>

InitR == InitService /\ InitHttpIdle /\ InitPureIdle /\ InitRaceIdle
NextR ==
    \/ Tick
    \/ \E t \in Threads, c \in Clients : RaceBegin(t, c)
    \/ \E t \in Threads : RaceLookup(t)
    \/ \E t \in Threads : RaceLoopTest(t)
    \/ \E t \in Threads : RaceLoopHead(t)
    \/ \E t \in Threads : RacePop(t)
    \/ \E t \in Threads : RaceCheck(t)
    \/ \E t \in Threads : RaceAppend(t)
SpecRace == InitR /\ [][NextR]_vars

-----------------------------------------------------------------------------
(* Claims about interleaved is_allowed calls, checked under SpecRace       *)

\* a thread that has passed the limit test appends its timestamp and returns
\* True, whatever the other thread has done in between
C19_AppendStep ==
    \A t \in Threads :
        (threads[t].pc = "append" /\ threads'[t] # threads[t]) =>
            /\ threads'[t].pc = "idle"
            /\ threads'[t].result = "True"
            /\ ClientRequests(requests', threads[t].client)
                  = Append(ThreadRequests(t), threads[t].now)

\* a client whose calls never overlapped is never over-admitted, and none of
\* its calls fails
C19_NoOverAdmissionAcrossClients ==
    /\ \A c \in Clients \ race.overlapped :
          /\ Len(ClientRequests(requests, c)) <= max_requests
          /\ \A t \in 0..(now + window_seconds) :
                AllowedInInterval(allowedLog[c], t, window_seconds)
                   <= max_requests
    /\ \A t \in Threads :
          threads[t].result = "IndexError" =>
              threads[t].client \in race.overlapped

\* C19: when two is_allowed calls of one client interleave so that both make
\* the limit test before either appends, both return True, and the client's
\* stored sequence can then hold more than max_requests timestamps of one
\* window; interleaved calls of different clients never over-admit.
C19_RaceOverAdmitsSameClientOnly ==
    /\ [][C19_AppendStep]_vars
    /\ []C19_NoOverAdmissionAcrossClients

\* both threads were past the limit test of the same client together, both
\* returned True, and the client holds more than max_requests timestamps that
\* lie within one window
C19_Witness ==
    /\ \A t \in Threads : threads[t].pc = "idle" /\ threads[t].result = "True"
    /\ \E c \in race.overlapped :
          /\ \A t \in Threads : threads[t].client = c
          /\ race.begun = 2
          /\ Len(ClientRequests(requests, c)) > max_requests
          /\ \A i, j \in DOMAIN ClientRequests(requests, c) :
                ClientRequests(requests, c)[i] - ClientRequests(requests, c)[j]
                   <= window_seconds

====
